---- MODULE Spec2Model ----
(***************************************************************************)
(* Discrete-event simulation of dump trucks cycling through loading,       *)
(* weighing and travel (src/simulation.js).  Times are integers, and       *)
(* probabilities are integers in thousandths (ProbScale stands for 1.0).   *)
(* One TLA+ step is one call of init() or one iteration of the while loop  *)
(* of run(); the step that leaves the loop also performs the final         *)
(* accumulator update and getFinalStats().                                 *)
(***************************************************************************)
EXTENDS Integers, Sequences, FiniteSets, TLC

VARIABLES numTrucks, numLoaders, numScales, maxSimTime, cumProbs,
          clock, FEL, state, loaderQueue, weigherQueue, trucks, stats,
          lastEventTime, event, pc, result, insertOrder,
          distText, error, part0

vars == <<numTrucks, numLoaders, numScales, maxSimTime, cumProbs,
          clock, FEL, state, loaderQueue, weigherQueue, trucks, stats,
          lastEventTime, event, pc, result, insertOrder,
          distText, error, part0>>

config == <<numTrucks, numLoaders, numScales, maxSimTime, cumProbs, distText, error>>

-----------------------------------------------------------------------------
(* Bounds of the explored inputs *)

MaxTrucks == 2
MaxCapacity == 2
MaxHorizon == 4

(* a horizon that the hard-coded tables of part_000 reach with every type  *)
(* of event: a first loading ends at 5 and the weighing after it at 17     *)
LongHorizon == 17

(* 1.0 in thousandths *)
ProbScale == 1000

(* Math.random() draws, in thousandths of [0, 1): the two ends of the      *)
(* interval and both sides of a table boundary                             *)
RandDraws == {0, 300, 301, 999}

-----------------------------------------------------------------------------
(* Distribution tables and the sampler *)

RECURSIVE SumProb(_)
SumProb(dist) ==
    IF dist = <<>> THEN 0 ELSE SumProb(SubSeq(dist, 1, Len(dist) - 1)) + dist[Len(dist)].prob

Abs(x) == IF x < 0 THEN -x ELSE x

(* the tolerance 0.001 of createCumulativeTable, in thousandths *)
Tolerance == 1

DistributionOk(dist) == Abs(SumProb(dist) - ProbScale) <= Tolerance

(* createCumulativeTable without the pinning of the last entry *)
createCumulativeTable_unpinned(dist) ==
    [i \in 1..Len(dist) |->
        [time |-> dist[i].time, cum_prob |-> SumProb(SubSeq(dist, 1, i))]]

createCumulativeTable(dist) ==
    [i \in 1..Len(dist) |->
        [time |-> dist[i].time,
         cum_prob |-> IF i = Len(dist) THEN ProbScale
                      ELSE SumProb(SubSeq(dist, 1, i))]]

RECURSIVE ScanTable(_, _, _)
ScanTable(table, rand, i) ==
    IF i > Len(table) THEN table[Len(table)].time
    ELSE IF rand <= table[i].cum_prob THEN table[i].time
    ELSE ScanTable(table, rand, i + 1)

(* the scan with a strict comparison *)
getRandomTime_strict(table, rand) ==
    LET hit == {i \in 1..Len(table) : rand < table[i].cum_prob}
    IN  IF hit = {} THEN table[Len(table)].time
        ELSE table[CHOOSE i \in hit : \A j \in hit : i <= j].time

getRandomTime(table, rand) == ScanTable(table, rand, 1)

-----------------------------------------------------------------------------
(* The distribution texts and parseDistribution *)

(* A field of a line, by what parseFloat makes of it: a number ("0.3"), a  *)
(* number followed by other characters ("0.3abc"), or no number ("abc").   *)
Num(v) == [text |-> "num", value |-> v]
NumJunk(v) == [text |-> "numjunk", value |-> v]
Junk == [text |-> "junk", value |-> 0]

(* parseFloat reads the longest numeric prefix and yields NaN without one *)
parseFloat(field) ==
    IF field.text = "junk" THEN [nan |-> TRUE, value |-> 0]
    ELSE [nan |-> FALSE, value |-> field.value]

(* A line of a text: blank, or split by ',' into `parts` parts of which    *)
(* the first two are the fields time and prob.                             *)
Blank == [blank |-> TRUE, parts |-> 1, time |-> Junk, prob |-> Junk]
Line(t, p) == [blank |-> FALSE, parts |-> 2, time |-> Num(t), prob |-> Num(p)]
Fields(n, tf, pf) == [blank |-> FALSE, parts |-> n, time |-> tf, prob |-> pf]

(* what the loop body of parseDistribution throws for one line *)
LineError(line) ==
    IF line.parts # 2 THEN "Invalid format"
    ELSE IF parseFloat(line.time).nan \/ parseFloat(line.prob).nan THEN "Invalid numbers"
    ELSE IF parseFloat(line.prob).value < 0 \/ parseFloat(line.prob).value > ProbScale
         THEN "Probability must be between 0 and 1"
    ELSE "none"

(* parseDistribution(text): the error of the first offending line, or the  *)
(* list of {time, prob} of the lines that are not blank                    *)
parseDistribution(text) ==
    LET lines == SelectSeq(text, LAMBDA l : ~l.blank)
        bad == {k \in 1..Len(lines) : LineError(lines[k]) # "none"}
    IN  IF bad # {}
        THEN [error |-> LineError(lines[CHOOSE k \in bad : \A j \in bad : k <= j]),
              dist |-> <<>>]
        ELSE [error |-> "none",
              dist |-> [k \in 1..Len(lines) |->
                          [time |-> parseFloat(lines[k].time).value,
                           prob |-> parseFloat(lines[k].prob).value]]]

ZeroText == << Line(0, 1000) >>

(* The texts tried for the three textareas *)
DistInputs ==
    { [loading  |-> << Line(1, 300), Blank, Line(2, 700) >>,
       weighing |-> << Line(1, 300), Line(2, 701) >>,
       travel   |-> << Line(2, 300), Line(3, 700) >>],
      [loading  |-> ZeroText, weighing |-> ZeroText, travel |-> ZeroText],
      [loading  |-> << Line(-1, 1000) >>,
       weighing |-> << Line(1, 1000) >>,
       travel   |-> << Line(2, 1000) >>],
      [loading  |-> << Fields(2, Num(0), NumJunk(1000)) >>,
       weighing |-> ZeroText, travel |-> ZeroText],
      [loading  |-> << Line(0, 500), Fields(3, Num(0), Num(500)) >>,
       weighing |-> ZeroText, travel |-> ZeroText],
      [loading  |-> ZeroText,
       weighing |-> << Fields(2, Junk, Num(1000)) >>, travel |-> ZeroText],
      [loading  |-> ZeroText, weighing |-> ZeroText,
       travel   |-> << Line(0, 1500), Line(1, -500) >>],
      [loading  |-> << Line(0, 500), Line(1, 450) >>,
       weighing |-> ZeroText, travel |-> ZeroText],
      [loading  |-> ZeroText,
       weighing |-> << Line(0, 500), Line(1, 502) >>, travel |-> ZeroText],
      [loading  |-> ZeroText, weighing |-> ZeroText, travel |-> << Blank >>] }

(* part_000: the hard-coded cumulative tables *)
CUM_PROBS ==
    [loading  |-> << [time |-> 5, cum_prob |-> 300], [time |-> 10, cum_prob |-> 800],
                     [time |-> 15, cum_prob |-> 1000] >>,
     weighing |-> << [time |-> 12, cum_prob |-> 300], [time |-> 14, cum_prob |-> 700],
                     [time |-> 16, cum_prob |-> 1000] >>,
     travel   |-> << [time |-> 40, cum_prob |-> 400], [time |-> 60, cum_prob |-> 700],
                     [time |-> 80, cum_prob |-> 1000] >>]

(* the texts from which runSimulation builds the tables of part_000 *)
CumProbsText ==
    [loading  |-> << Line(5, 300), Line(10, 500), Line(15, 200) >>,
     weighing |-> << Line(12, 300), Line(14, 400), Line(16, 300) >>,
     travel   |-> << Line(40, 400), Line(60, 300), Line(80, 300) >>]

(* the texts once runSimulation has read them *)
NoText == [loading |-> <<>>, weighing |-> <<>>, travel |-> <<>>]

NoTables == [loading |-> <<>>, weighing |-> <<>>, travel |-> <<>>]

-----------------------------------------------------------------------------
(* The future event list *)

(* the comparator (a, b) => a.time - b.time *)
Compare(a, b) == a.time - b.time

(* a sort that puts an element before the earlier elements it ties with *)
SortedIndex_unstable(arr, i) ==
    1 + Cardinality({j \in 1..Len(arr) : Compare(arr[j], arr[i]) < 0})
      + Cardinality({j \in (i + 1)..Len(arr) : Compare(arr[j], arr[i]) = 0})

(* Array.prototype.sort is stable: the element at index i comes to rest    *)
(* behind every element that compares smaller and behind every element of  *)
(* a smaller index that compares equal.                                    *)
SortedIndex(arr, i) ==
    1 + Cardinality({j \in 1..Len(arr) : Compare(arr[j], arr[i]) < 0})
      + Cardinality({j \in 1..(i - 1) : Compare(arr[j], arr[i]) = 0})

SortByTime(arr) ==
    [k \in 1..Len(arr) |-> arr[CHOOSE i \in 1..Len(arr) : SortedIndex(arr, i) = k]]

addEvent(fel, e) == SortByTime(Append(fel, e))

NoEvent == [time |-> 0, type |-> "NONE", truckId |-> 0]

-----------------------------------------------------------------------------
(* The Simulation of src/unnamed/part_000, run beside the one of           *)
(* src/simulation.js on the same numeric inputs and the same draws.  Its   *)
(* fields are the record part0; p.pc is "none" while no such Simulation    *)
(* exists.                                                                 *)

(* the global getRandomTime(type) over the hard-coded tables *)
P0_getRandomTime(type, rand) ==
    LET table == CUM_PROBS[type]
        hit == {i \in 1..Len(table) : rand <= table[i].cum_prob}
    IN  IF hit = {} THEN table[Len(table)].time
        ELSE table[CHOOSE i \in hit : \A j \in hit : i <= j].time

(* the one element of a set of one *)
Only(S) == CHOOSE x \in S : TRUE

P0_addEvent(p, e) ==
    Only({ [p EXCEPT !.FEL = SortByTime(fel)] : fel \in {Append(p.FEL, e)} })

NoPart0 ==
    [pc |-> "none", clock |-> 0, FEL |-> <<>>,
     state |-> [LQ |-> 0, L |-> 0, WQ |-> 0, W |-> 0],
     loaderQueue |-> <<>>, weigherQueue |-> <<>>, trucks |-> <<>>,
     stats |-> [loaderBusyTime |-> 0, scaleBusyTime |-> 0],
     lastEventTime |-> 0,
     result |-> [totalTime |-> 0, loaderUtilization |-> <<0, 1>>, scaleUtilization |-> <<0, 1>>]]

(* new Simulation(numTrucks, numLoaders, numScales, maxSimTime) *)
P0_Simulation ==
    [NoPart0 EXCEPT !.pc = "constructed", !.trucks = [i \in 1..numTrucks |-> "IDLE"]]

(* init(): the for loop of the problem-specific start, as a set of one *)
RECURSIVE P0_InitLoaders(_, _, _)
P0_InitLoaders(p, truckId, draws) ==
    IF truckId > 5 THEN {p}
    ELSE IF p.state.L < numLoaders
         THEN UNION { P0_InitLoaders(p2, truckId + 1, Tail(draws)) :
                         p2 \in { P0_addEvent([p EXCEPT !.state.L = @ + 1, !.trucks[truckId] = "LOADING"],
                                              [time |-> p.clock + P0_getRandomTime("loading", Head(draws)),
                                               type |-> "EL", truckId |-> truckId]) } }
         ELSE UNION { P0_InitLoaders(p2, truckId + 1, draws) :
                         p2 \in { [p EXCEPT !.state.LQ = @ + 1,
                                            !.loaderQueue = Append(@, truckId),
                                            !.trucks[truckId] = "IN_LQ"] } }

P0_InitScale(p, truckId, r) ==
    IF p.state.W < numScales
    THEN P0_addEvent([p EXCEPT !.state.W = @ + 1, !.trucks[truckId] = "WEIGHING"],
                     [time |-> p.clock + P0_getRandomTime("weighing", r),
                      type |-> "EW", truckId |-> truckId])
    ELSE [p EXCEPT !.state.WQ = @ + 1,
                   !.weigherQueue = Append(@, truckId),
                   !.trucks[truckId] = "IN_WQ"]

(* the general start: the FEL after one ALQ per truck at time 0 *)
P0_InitArrivals(p) ==
    [p EXCEPT !.FEL = [i \in 1..numTrucks |-> [time |-> 0, type |-> "ALQ", truckId |-> i]]]

P0_init(p, draws) ==
    IF numTrucks = 6 /\ numLoaders = 2 /\ numScales = 1
    THEN Only({ P0_InitScale(p5, 6, draws[3]) :
                   p5 \in P0_InitLoaders(p, 1, <<draws[1], draws[2]>>) })
    ELSE P0_InitArrivals(p)

(* the hand-off of a freed loader to the head of the loader queue *)
P0_LoaderHandOff(p, r2) ==
    IF p.state.LQ > 0
    THEN P0_addEvent([p EXCEPT !.loaderQueue = Tail(@),
                               !.state.LQ = @ - 1,
                               !.state.L = @ + 1,
                               !.trucks[Head(p.loaderQueue)] = "LOADING"],
                     [time |-> p.clock + P0_getRandomTime("loading", r2),
                      type |-> "EL", truckId |-> Head(p.loaderQueue)])
    ELSE p

(* the hand-off of a freed scale to the head of the weigh queue *)
P0_ScaleHandOff(p, r2) ==
    IF p.state.WQ > 0
    THEN P0_addEvent([p EXCEPT !.weigherQueue = Tail(@),
                               !.state.WQ = @ - 1,
                               !.state.W = @ + 1,
                               !.trucks[Head(p.weigherQueue)] = "WEIGHING"],
                     [time |-> p.clock + P0_getRandomTime("weighing", r2),
                      type |-> "EW", truckId |-> Head(p.weigherQueue)])
    ELSE p

P0_handleALQ(p, ev, r1) ==
    IF p.state.L < numLoaders
    THEN P0_addEvent([p EXCEPT !.state.L = @ + 1, !.trucks[ev.truckId] = "LOADING"],
                     [time |-> p.clock + P0_getRandomTime("loading", r1),
                      type |-> "EL", truckId |-> ev.truckId])
    ELSE [p EXCEPT !.trucks[ev.truckId] = "IN_LQ",
                   !.state.LQ = @ + 1,
                   !.loaderQueue = Append(@, ev.truckId)]

P0_handleEL(p, ev, r1, r2) ==
    Only({ P0_LoaderHandOff(p2, r2) :
              p2 \in { IF p.state.W < numScales
                       THEN P0_addEvent([p EXCEPT !.state.L = @ - 1,
                                                  !.state.W = @ + 1,
                                                  !.trucks[ev.truckId] = "WEIGHING"],
                                        [time |-> p.clock + P0_getRandomTime("weighing", r1),
                                         type |-> "EW", truckId |-> ev.truckId])
                       ELSE [p EXCEPT !.state.L = @ - 1,
                                      !.trucks[ev.truckId] = "IN_WQ",
                                      !.state.WQ = @ + 1,
                                      !.weigherQueue = Append(@, ev.truckId)] } })

P0_handleEW(p, ev, r1, r2) ==
    Only({ P0_ScaleHandOff(p2, r2) :
              p2 \in { P0_addEvent([p EXCEPT !.state.W = @ - 1, !.trucks[ev.truckId] = "TRAVELING"],
                                   [time |-> p.clock + P0_getRandomTime("travel", r1),
                                    type |-> "ALQ", truckId |-> ev.truckId]) } })

P0_getFinalStats(p) ==
    [totalTime |-> p.clock,
     loaderUtilization |-> IF numLoaders * p.clock > 0
                           THEN <<p.stats.loaderBusyTime * 100, numLoaders * p.clock>>
                           ELSE <<0, 1>>,
     scaleUtilization  |-> IF numScales * p.clock > 0
                           THEN <<p.stats.scaleBusyTime * 100, numScales * p.clock>>
                           ELSE <<0, 1>>]

(* run() after its loop: the final update, made whatever the sign of       *)
(* timeDelta, and the statistics                                           *)
P0_finish(p) ==
    Only({ [p1 EXCEPT !.result = P0_getFinalStats(p1), !.pc = "done"] :
              p1 \in { [p EXCEPT !.stats =
                          [loaderBusyTime |-> @.loaderBusyTime + p.state.L * (p.clock - p.lastEventTime),
                           scaleBusyTime  |-> @.scaleBusyTime + p.state.W * (p.clock - p.lastEventTime)]] } })

(* the statistics update and the advance of the clock for the event ev *)
P0_advance(p, ev) ==
    [p EXCEPT !.FEL = Tail(@),
              !.stats = [loaderBusyTime |-> @.loaderBusyTime + p.state.L * (ev.time - p.lastEventTime),
                         scaleBusyTime  |-> @.scaleBusyTime + p.state.W * (ev.time - p.lastEventTime)],
              !.clock = ev.time,
              !.lastEventTime = ev.time]

(* one iteration of the while loop of run(), or its exit *)
P0_iterate(p, r1, r2) ==
    IF p.FEL = <<>> THEN P0_finish(p)
    ELSE IF Head(p.FEL).time > maxSimTime
         THEN P0_finish([p EXCEPT !.FEL = Tail(@), !.clock = maxSimTime])
         ELSE Only({ IF Head(p.FEL).type = "ALQ" THEN P0_handleALQ(p1, Head(p.FEL), r1)
                     ELSE IF Head(p.FEL).type = "EL" THEN P0_handleEL(p1, Head(p.FEL), r1, r2)
                     ELSE P0_handleEW(p1, Head(p.FEL), r1, r2) :
                        p1 \in { P0_advance(p, Head(p.FEL)) } })

(* the draws handed to a step that makes none *)
NoDraws == <<0, 0, 0>>

(* the next step of run() of part_000 with the draws of this step *)
P0_Next(p, draws) ==
    IF p.pc = "constructed" THEN [P0_init(p, draws) EXCEPT !.pc = "running"]
    ELSE IF p.pc = "running" THEN P0_iterate(p, draws[1], draws[2])
    ELSE p

-----------------------------------------------------------------------------
(* Construction *)

Configs ==
    { c \in [trucks : 0..MaxTrucks, loaders : 0..MaxCapacity, scales : 0..MaxCapacity] : TRUE }
    \cup { [trucks |-> 6, loaders |-> 2, scales |-> 1] }

Init ==
    /\ \E c \in Configs :
          /\ numTrucks = c.trucks
          /\ numLoaders = c.loaders
          /\ numScales = c.scales
    /\ \/ distText \in DistInputs /\ maxSimTime \in -1..MaxHorizon
       \/ distText = CumProbsText /\ maxSimTime \in {-1, 0, LongHorizon}
    /\ cumProbs = NoTables
    /\ error = "none"
    /\ clock = 0
    /\ FEL = <<>>
    /\ state = [LQ |-> 0, L |-> 0, WQ |-> 0, W |-> 0]
    /\ loaderQueue = <<>>
    /\ weigherQueue = <<>>
    /\ trucks = [i \in 1..numTrucks |-> "IDLE"]
    /\ stats = [loaderBusyTime |-> 0, scaleBusyTime |-> 0]
    /\ lastEventTime = 0
    /\ event = NoEvent
    /\ pc = "clicked"
    /\ result = [totalTime |-> 0, loaderUtilization |-> <<0, 1>>, scaleUtilization |-> <<0, 1>>]
    /\ insertOrder = <<>>
    /\ part0 = NoPart0

-----------------------------------------------------------------------------
(* runSimulation(): the inputs are read and validated, then the Simulation *)
(* is constructed                                                          *)

Types == <<"loading", "weighing", "travel">>

(* the first error thrown inside the try block, "none" without one: the    *)
(* three texts are parsed first, then the three tables are built           *)
ValidationError(text) ==
    LET parsed == [ty \in {"loading", "weighing", "travel"} |-> parseDistribution(text[ty])]
        badParse == {k \in 1..3 : parsed[Types[k]].error # "none"}
        badSum == {k \in 1..3 : ~DistributionOk(parsed[Types[k]].dist)}
    IN  IF badParse # {}
        THEN parsed[Types[CHOOSE k \in badParse : \A j \in badParse : k <= j]].error
        ELSE IF badSum # {} THEN "must sum to 1.0"
        ELSE "none"

(* the catch block: the error is shown, no Simulation exists *)
RunSimulationFail ==
    /\ pc = "clicked"
    /\ ValidationError(distText) # "none"
    /\ error' = ValidationError(distText)
    /\ pc' = "failed"
    /\ UNCHANGED <<numTrucks, numLoaders, numScales, maxSimTime, cumProbs, distText,
                   clock, FEL, state, loaderQueue, weigherQueue, trucks, stats,
                   lastEventTime, event, result, insertOrder, part0>>

(* new Simulation(numTrucks, numLoaders, numScales, maxSimTime, cumProbs) *)
RunSimulationConstruct ==
    /\ pc = "clicked"
    /\ ValidationError(distText) = "none"
    /\ cumProbs' = [ty \in {"loading", "weighing", "travel"} |->
                       createCumulativeTable(parseDistribution(distText[ty]).dist)]
    /\ distText' = NoText
    /\ pc' = "constructed"
    /\ part0' = IF cumProbs' = CUM_PROBS THEN P0_Simulation ELSE part0
    /\ UNCHANGED <<numTrucks, numLoaders, numScales, maxSimTime, error,
                   clock, FEL, state, loaderQueue, weigherQueue, trucks, stats,
                   lastEventTime, event, result, insertOrder>>

-----------------------------------------------------------------------------
(* The part of the engine the handlers change, as one record *)

Engine == [FEL |-> FEL, state |-> state, loaderQueue |-> loaderQueue,
           weigherQueue |-> weigherQueue, trucks |-> trucks,
           insertOrder |-> insertOrder]

(* this.addEvent(e), with the order of insertion remembered beside the FEL *)
Schedule(m, e) ==
    [m EXCEPT !.FEL = addEvent(@, e), !.insertOrder = Append(@, e)]

(* seq without the first occurrence of x *)
RemoveFirst(seq, x) ==
    IF \E k \in 1..Len(seq) : seq[k] = x
    THEN LET first == CHOOSE k \in 1..Len(seq) :
                          seq[k] = x /\ \A j \in 1..(k - 1) : seq[j] # x
         IN  SubSeq(seq, 1, first - 1) \o SubSeq(seq, first + 1, Len(seq))
    ELSE seq

(* this.FEL.shift() *)
Shift(m) ==
    [m EXCEPT !.FEL = Tail(@), !.insertOrder = RemoveFirst(@, Head(m.FEL))]

-----------------------------------------------------------------------------
(* init() *)

isProblemSpecific == numTrucks = 6 /\ numLoaders = 2 /\ numScales = 1

(* the draws of Math.random() made by the problem-specific start: one for *)
(* each of the two loaders, then one for the scale                         *)
InitDraws == [1..3 -> RandDraws]

(* the for loop of the problem-specific start: trucks truckId..5 go to the *)
(* loaders, draws being the draws still to come; the engine it leaves, as  *)
(* a set of one element                                                    *)
RECURSIVE InitLoaders(_, _, _)
InitLoaders(m, truckId, draws) ==
    IF truckId > 5 THEN {m}
    ELSE IF m.state.L < numLoaders
         THEN UNION { InitLoaders(m2, truckId + 1, Tail(draws)) :
                         m2 \in { Schedule([m EXCEPT !.state.L = @ + 1, !.trucks[truckId] = "LOADING"],
                                           [time |-> clock + getRandomTime(cumProbs.loading, Head(draws)),
                                            type |-> "EL", truckId |-> truckId]) } }
         ELSE UNION { InitLoaders(m2, truckId + 1, draws) :
                         m2 \in { [m EXCEPT !.state.LQ = @ + 1,
                                            !.loaderQueue = Append(@, truckId),
                                            !.trucks[truckId] = "IN_LQ"] } }

(* the sixth truck always joins the weigh queue *)
InitScale_queue(m, truckId, r) ==
    { [m EXCEPT !.state.WQ = @ + 1,
                !.weigherQueue = Append(@, truckId),
                !.trucks[truckId] = "IN_WQ"] }

(* the sixth truck goes to the scale *)
InitScale(m, truckId, r) ==
    IF m.state.W < numScales
    THEN { LET weighTime == getRandomTime(cumProbs.weighing, r)
               m1 == [m EXCEPT !.state.W = @ + 1, !.trucks[truckId] = "WEIGHING"]
           IN  Schedule(m1, [time |-> clock + weighTime, type |-> "EW", truckId |-> truckId]) }
    ELSE { [m EXCEPT !.state.WQ = @ + 1,
                     !.weigherQueue = Append(@, truckId),
                     !.trucks[truckId] = "IN_WQ"] }

RECURSIVE InitArrivals(_, _)
InitArrivals(m, i) ==
    IF i > numTrucks THEN m
    ELSE InitArrivals(Schedule(m, [time |-> 0, type |-> "ALQ", truckId |-> i]), i + 1)

SetEngine(m) ==
    /\ FEL' = m.FEL
    /\ state' = m.state
    /\ loaderQueue' = m.loaderQueue
    /\ weigherQueue' = m.weigherQueue
    /\ trucks' = m.trucks
    /\ insertOrder' = m.insertOrder

InitSpecific ==
    /\ pc = "constructed"
    /\ isProblemSpecific
    /\ \E d \in InitDraws :
          \E m5 \in InitLoaders(Engine, 1, <<d[1], d[2]>>) :
             \E m6 \in InitScale(m5, 6, d[3]) :
                SetEngine(m6) /\ part0' = P0_Next(part0, d)
    /\ pc' = "running"
    /\ UNCHANGED <<config, clock, stats, lastEventTime, event, result>>

InitGeneral ==
    /\ pc = "constructed"
    /\ ~isProblemSpecific
    /\ SetEngine(InitArrivals(Engine, 1))
    /\ part0' = P0_Next(part0, NoDraws)
    /\ pc' = "running"
    /\ UNCHANGED <<config, clock, stats, lastEventTime, event, result>>

-----------------------------------------------------------------------------
(* The event handlers; t is this.clock, already advanced to the event *)

(* handleALQ admitting a truck to a loader when all loaders are busy *)
handleALQ_overfill(m, ev, t, r1) ==
    LET m1 == [m EXCEPT !.trucks[ev.truckId] = "IN_LQ"]
    IN  IF m1.state.L <= numLoaders
        THEN LET loadTime == getRandomTime(cumProbs.loading, r1)
                 m2 == [m1 EXCEPT !.state.L = @ + 1, !.trucks[ev.truckId] = "LOADING"]
             IN  Schedule(m2, [time |-> t + loadTime, type |-> "EL", truckId |-> ev.truckId])
        ELSE [m1 EXCEPT !.state.LQ = @ + 1, !.loaderQueue = Append(@, ev.truckId)]

(* handleALQ setting the truck's state only when it starts loading *)
handleALQ_nophase(m, ev, t, r1) ==
    IF m.state.L < numLoaders
    THEN LET loadTime == getRandomTime(cumProbs.loading, r1)
             m2 == [m EXCEPT !.state.L = @ + 1, !.trucks[ev.truckId] = "LOADING"]
         IN  Schedule(m2, [time |-> t + loadTime, type |-> "EL", truckId |-> ev.truckId])
    ELSE [m EXCEPT !.state.LQ = @ + 1, !.loaderQueue = Append(@, ev.truckId)]

(* an arrival that joins the queue even when a loader is free *)
handleALQ_alwaysQueue(m, ev, t, r1) ==
    LET m1 == [m EXCEPT !.trucks[ev.truckId] = "IN_LQ"]
    IN  [m1 EXCEPT !.state.LQ = @ + 1, !.loaderQueue = Append(@, ev.truckId)]

handleALQ(m, ev, t, r1) ==
    LET m1 == [m EXCEPT !.trucks[ev.truckId] = "IN_LQ"]
    IN  IF m1.state.L < numLoaders
        THEN LET loadTime == getRandomTime(cumProbs.loading, r1)
                 m2 == [m1 EXCEPT !.state.L = @ + 1, !.trucks[ev.truckId] = "LOADING"]
             IN  Schedule(m2, [time |-> t + loadTime, type |-> "EL", truckId |-> ev.truckId])
        ELSE [m1 EXCEPT !.state.LQ = @ + 1, !.loaderQueue = Append(@, ev.truckId)]

(* a hand-off to the truck that joined the loader queue last *)
LoaderHandOff_lifo(m, t, r2) ==
    IF m.state.LQ > 0
    THEN LET nextTruckId == m.loaderQueue[Len(m.loaderQueue)]
             loadTime == getRandomTime(cumProbs.loading, r2)
             m1 == [m EXCEPT !.loaderQueue = SubSeq(@, 1, Len(@) - 1),
                             !.state.LQ = @ - 1,
                             !.state.L = @ + 1,
                             !.trucks[nextTruckId] = "LOADING"]
         IN  Schedule(m1, [time |-> t + loadTime, type |-> "EL", truckId |-> nextTruckId])
    ELSE m

(* no hand-off: the freed loader stays idle until the next arrival *)
LoaderHandOff_none(m, t, r2) == m

(* the hand-off of a freed loader to the head of the loader queue *)
LoaderHandOff(m, t, r2) ==
    IF m.state.LQ > 0
    THEN LET nextTruckId == Head(m.loaderQueue)
             loadTime == getRandomTime(cumProbs.loading, r2)
             m1 == [m EXCEPT !.loaderQueue = Tail(@),
                             !.state.LQ = @ - 1,
                             !.state.L = @ + 1,
                             !.trucks[nextTruckId] = "LOADING"]
         IN  Schedule(m1, [time |-> t + loadTime, type |-> "EL", truckId |-> nextTruckId])
    ELSE m

(* handleEL that forgets to release the loader *)
handleEL_noRelease(m, ev, t, r1, r2) ==
    LET m1 == [m EXCEPT !.trucks[ev.truckId] = "IN_WQ"]
        m2 == IF m1.state.W < numScales
              THEN LET weighTime == getRandomTime(cumProbs.weighing, r1)
                       m1a == [m1 EXCEPT !.state.W = @ + 1, !.trucks[ev.truckId] = "WEIGHING"]
                   IN  Schedule(m1a, [time |-> t + weighTime, type |-> "EW", truckId |-> ev.truckId])
              ELSE [m1 EXCEPT !.state.WQ = @ + 1, !.weigherQueue = Append(@, ev.truckId)]
    IN  LoaderHandOff(m2, t, r2)

(* handleEL that starts the weighing without scheduling its end *)
handleEL_noEndWeighing(m, ev, t, r1, r2) ==
    LET m1 == [m EXCEPT !.state.L = @ - 1, !.trucks[ev.truckId] = "IN_WQ"]
        m2 == IF m1.state.W < numScales
              THEN [m1 EXCEPT !.state.W = @ + 1, !.trucks[ev.truckId] = "WEIGHING"]
              ELSE [m1 EXCEPT !.state.WQ = @ + 1, !.weigherQueue = Append(@, ev.truckId)]
    IN  LoaderHandOff(m2, t, r2)

handleEL(m, ev, t, r1, r2) ==
    LET m1 == [m EXCEPT !.state.L = @ - 1, !.trucks[ev.truckId] = "IN_WQ"]
        m2 == IF m1.state.W < numScales
              THEN LET weighTime == getRandomTime(cumProbs.weighing, r1)
                       m1a == [m1 EXCEPT !.state.W = @ + 1, !.trucks[ev.truckId] = "WEIGHING"]
                   IN  Schedule(m1a, [time |-> t + weighTime, type |-> "EW", truckId |-> ev.truckId])
              ELSE [m1 EXCEPT !.state.WQ = @ + 1, !.weigherQueue = Append(@, ev.truckId)]
    IN  LoaderHandOff(m2, t, r2)

(* a hand-off that leaves the truck's state IN_WQ *)
ScaleHandOff_noPhase(m, t, r2) ==
    IF m.state.WQ > 0
    THEN LET nextTruckId == Head(m.weigherQueue)
             weighTime == getRandomTime(cumProbs.weighing, r2)
             m1 == [m EXCEPT !.weigherQueue = Tail(@),
                             !.state.WQ = @ - 1,
                             !.state.W = @ + 1]
         IN  Schedule(m1, [time |-> t + weighTime, type |-> "EW", truckId |-> nextTruckId])
    ELSE m

(* a hand-off that leaves the truck in the weigh queue *)
ScaleHandOff_noDequeue(m, t, r2) ==
    IF m.state.WQ > 0
    THEN LET nextTruckId == Head(m.weigherQueue)
             weighTime == getRandomTime(cumProbs.weighing, r2)
             m1 == [m EXCEPT !.state.WQ = @ - 1,
                             !.state.W = @ + 1,
                             !.trucks[nextTruckId] = "WEIGHING"]
         IN  Schedule(m1, [time |-> t + weighTime, type |-> "EW", truckId |-> nextTruckId])
    ELSE m

(* the hand-off of a freed scale to the head of the weigh queue *)
ScaleHandOff(m, t, r2) ==
    IF m.state.WQ > 0
    THEN LET nextTruckId == Head(m.weigherQueue)
             weighTime == getRandomTime(cumProbs.weighing, r2)
             m1 == [m EXCEPT !.weigherQueue = Tail(@),
                             !.state.WQ = @ - 1,
                             !.state.W = @ + 1,
                             !.trucks[nextTruckId] = "WEIGHING"]
         IN  Schedule(m1, [time |-> t + weighTime, type |-> "EW", truckId |-> nextTruckId])
    ELSE m

(* an EndWeighing that sends the truck back to IDLE *)
handleEW_idle(m, ev, t, r1, r2) ==
    LET travelTime == getRandomTime(cumProbs.travel, r1)
        m1 == [m EXCEPT !.state.W = @ - 1, !.trucks[ev.truckId] = "IDLE"]
        m2 == Schedule(m1, [time |-> t + travelTime, type |-> "ALQ", truckId |-> ev.truckId])
    IN  ScaleHandOff(m2, t, r2)

(* an EndWeighing that schedules no return of the truck *)
handleEW_noTravel(m, ev, t, r1, r2) ==
    LET m1 == [m EXCEPT !.state.W = @ - 1, !.trucks[ev.truckId] = "TRAVELING"]
    IN  ScaleHandOff(m1, t, r2)

handleEW(m, ev, t, r1, r2) ==
    LET travelTime == getRandomTime(cumProbs.travel, r1)
        m1 == [m EXCEPT !.state.W = @ - 1, !.trucks[ev.truckId] = "TRAVELING"]
        m2 == Schedule(m1, [time |-> t + travelTime, type |-> "ALQ", truckId |-> ev.truckId])
    IN  ScaleHandOff(m2, t, r2)

-----------------------------------------------------------------------------
(* run(): one iteration of the while loop *)

(* if (event.time > this.maxSimTime) *)
(* a horizon check that also cuts off an event exactly at the horizon *)
BeyondHorizon_inclusive(ev) == ev.time >= maxSimTime

BeyondHorizon(ev) == ev.time > maxSimTime

(* the loop is entered and the shifted event is not beyond the horizon *)
Dispatching(type) ==
    /\ pc = "running"
    /\ FEL # <<>>
    /\ ~BeyondHorizon(Head(FEL))
    /\ Head(FEL).type = type

(* the accumulator update with the two counts exchanged *)
Accumulate_swapped(st, L, W, timeDelta) ==
    [loaderBusyTime |-> st.loaderBusyTime + W * timeDelta,
     scaleBusyTime  |-> st.scaleBusyTime + L * timeDelta]

(* the accumulator update with the counts that held before the event *)
Accumulate(st, L, W, timeDelta) ==
    [loaderBusyTime |-> st.loaderBusyTime + L * timeDelta,
     scaleBusyTime  |-> st.scaleBusyTime + W * timeDelta]

Advance(ev) ==
    /\ event' = ev
    /\ stats' = Accumulate(stats, state.L, state.W, ev.time - lastEventTime)
    /\ clock' = ev.time
    /\ lastEventTime' = ev.time
    /\ pc' = "running"
    /\ UNCHANGED <<config, result>>

StepALQ ==
    /\ Dispatching("ALQ")
    /\ Advance(Head(FEL))
    /\ \E r1 \in RandDraws :
          /\ SetEngine(handleALQ(Shift(Engine), Head(FEL), Head(FEL).time, r1))
          /\ part0' = P0_Next(part0, <<r1, r1, r1>>)

StepEL ==
    /\ Dispatching("EL")
    /\ Advance(Head(FEL))
    /\ \E r1 \in RandDraws, r2 \in RandDraws :
          /\ SetEngine(handleEL(Shift(Engine), Head(FEL), Head(FEL).time, r1, r2))
          /\ part0' = P0_Next(part0, <<r1, r2, r2>>)

StepEW ==
    /\ Dispatching("EW")
    /\ Advance(Head(FEL))
    /\ \E r1 \in RandDraws, r2 \in RandDraws :
          /\ SetEngine(handleEW(Shift(Engine), Head(FEL), Head(FEL).time, r1, r2))
          /\ part0' = P0_Next(part0, <<r1, r2, r2>>)

-----------------------------------------------------------------------------
(* run(): leaving the loop, the final accumulator update, getFinalStats() *)

(* a percentage busy / available * 100 as the fraction <<numerator, denominator>> *)
(* the percentage without the guard against an available time of 0 *)
Utilization_unguarded(busyTime, availableTime) == <<busyTime * 100, availableTime>>

Utilization(busyTime, availableTime) ==
    IF availableTime > 0 THEN <<busyTime * 100, availableTime>> ELSE <<0, 1>>

(* statistics that report the time of the last processed event *)
getFinalStats_lastEvent(clk, st) ==
    [totalTime |-> lastEventTime,
     loaderUtilization |-> Utilization(st.loaderBusyTime, numLoaders * clk),
     scaleUtilization  |-> Utilization(st.scaleBusyTime, numScales * clk)]

getFinalStats(clk, st) ==
    [totalTime |-> clk,
     loaderUtilization |-> Utilization(st.loaderBusyTime, numLoaders * clk),
     scaleUtilization  |-> Utilization(st.scaleBusyTime, numScales * clk)]

(* a final update that skips an interval of one time unit *)
FinalUpdate_aboveOne(st, L, W, timeDelta) ==
    IF timeDelta > 1 THEN Accumulate(st, L, W, timeDelta) ELSE st

FinalUpdate(st, L, W, timeDelta) ==
    IF timeDelta > 0 THEN Accumulate(st, L, W, timeDelta) ELSE st

Finish(clk) ==
    /\ clock' = clk
    /\ stats' = FinalUpdate(stats, state.L, state.W, clk - lastEventTime)
    /\ result' = getFinalStats(clk, stats')
    /\ pc' = "done"
    /\ part0' = P0_Next(part0, NoDraws)
    /\ UNCHANGED <<config, lastEventTime, state, loaderQueue, weigherQueue, trucks>>

(* the shifted event lies beyond the horizon: it is dropped and the loop ends *)
ExitHorizon ==
    /\ pc = "running"
    /\ FEL # <<>>
    /\ BeyondHorizon(Head(FEL))
    /\ event' = Head(FEL)
    /\ FEL' = Tail(FEL)
    /\ insertOrder' = RemoveFirst(insertOrder, Head(FEL))
    /\ Finish(maxSimTime)

(* the FEL is empty when the loop condition is tested *)
ExitEmpty ==
    /\ pc = "running"
    /\ FEL = <<>>
    /\ UNCHANGED <<FEL, insertOrder, event>>
    /\ Finish(clock)

Next ==
    \/ RunSimulationFail
    \/ RunSimulationConstruct
    \/ InitSpecific
    \/ InitGeneral
    \/ StepALQ
    \/ StepEL
    \/ StepEW
    \/ ExitHorizon
    \/ ExitEmpty

Spec == Init /\ [][Next]_vars

(* run() is synchronous and single-threaded: a step that can be taken is taken *)
FairSpec ==
    /\ Spec
    /\ WF_vars(RunSimulationFail) /\ WF_vars(RunSimulationConstruct)
    /\ WF_vars(InitSpecific) /\ WF_vars(InitGeneral)
    /\ WF_vars(StepALQ) /\ WF_vars(StepEL) /\ WF_vars(StepEW)
    /\ WF_vars(ExitHorizon) /\ WF_vars(ExitEmpty)

TypeOK ==
    /\ pc \in {"clicked", "failed", "constructed", "running", "done"}
    /\ state.L \in Int /\ state.LQ \in Nat /\ state.W \in Int /\ state.WQ \in Nat
    /\ \A i \in 1..Len(FEL) : FEL[i].type \in {"ALQ", "EL", "EW"} /\ FEL[i].truckId \in 1..numTrucks
    /\ \A i \in DOMAIN trucks : trucks[i] \in {"IDLE", "IN_LQ", "LOADING", "IN_WQ", "WEIGHING", "TRAVELING"}

-----------------------------------------------------------------------------
(* Configurations the interface documents as valid *)

ValidConfig ==
    /\ numTrucks >= 1
    /\ numLoaders >= 1
    /\ numScales >= 1
    /\ maxSimTime >= 0

InSystem == {"IN_LQ", "LOADING", "IN_WQ", "WEIGHING", "TRAVELING"}

Started == pc \in {"running", "done"}

-----------------------------------------------------------------------------
(* C1: in every state of a run, after init and after every processed       *)
(* event, in both start modes, the busy counters stay within               *)
(* 0 .. capacity: 0 <= L <= numLoaders and 0 <= W <= numScales.            *)
C1_CapacityInvariant ==
    /\ 0 <= state.L /\ state.L <= numLoaders
    /\ 0 <= state.W /\ state.W <= numScales

(* every loader and every scale is busy and a truck waits for each *)
C1_Witness ==
    /\ ValidConfig
    /\ pc = "running"
    /\ state.L = numLoaders /\ state.LQ > 0
    /\ state.W = numScales /\ state.WQ > 0

-----------------------------------------------------------------------------
(* C2, as claimed: at every instant of a run, the state right after init   *)
(* included, the number of trucks in one of the five phases IN_LQ,         *)
(* LOADING, IN_WQ, WEIGHING, TRAVELING equals numTrucks.                   *)
C2_ConservationFivePhases ==
    Started => Cardinality({i \in DOMAIN trucks : trucks[i] \in InSystem}) = numTrucks

(* C2, amended: with a horizon >= 0, at every instant of a run there is    *)
(* exactly one truck record per id 1..numTrucks, each in one of the six    *)
(* phases IDLE or the five above, and a truck is IDLE only while its       *)
(* initial arrival at time 0 is still pending in the FEL.                  *)
C2_Conservation ==
    (Started /\ maxSimTime >= 0) =>
        /\ DOMAIN trucks = 1..numTrucks
        /\ \A i \in 1..numTrucks :
              \/ trucks[i] \in InSystem
              \/ /\ trucks[i] = "IDLE"
                 /\ \E k \in 1..Len(FEL) :
                       FEL[k] = [time |-> 0, type |-> "ALQ", truckId |-> i]
        /\ Cardinality({i \in 1..numTrucks : trucks[i] \in InSystem \cup {"IDLE"}}) = numTrucks

(* the general start, part of the way through the arrivals at time 0: one  *)
(* truck is loading while another has not arrived yet                      *)
C2_Witness ==
    /\ ValidConfig
    /\ pc = "running"
    /\ \E i \in 1..numTrucks : trucks[i] = "IDLE"
    /\ \E i \in 1..numTrucks : trucks[i] = "LOADING"

-----------------------------------------------------------------------------
(* the loop is about to dispatch the head of the FEL to its handler *)
AboutToDispatch ==
    /\ pc = "running"
    /\ FEL # <<>>
    /\ Head(FEL).time <= maxSimTime

Pending(fel) == {fel[k] : k \in 1..Len(fel)}

(* C3: within one run of a valid configuration the times of the dispatched events never decrease:   *)
(* a dispatch never moves the clock backwards, the dispatched event is the *)
(* minimum of the FEL, and every event a handler schedules has a time      *)
(* >= the clock at which it is scheduled.                                  *)
C3_MonotonicClock ==
    [][ (ValidConfig /\ AboutToDispatch) =>
          /\ clock' >= clock
          /\ clock' = Head(FEL).time
          /\ \A e \in Pending(FEL) : clock' <= e.time
          /\ \A e \in Pending(FEL') \ Pending(FEL) : e.time >= clock' ]_vars

-----------------------------------------------------------------------------
(* C4: for a valid configuration, when run() has returned, each busy-time  *)
(* integral lies in 0 .. capacity * final clock, so that both utilization  *)
(* percentages lie in [0, 100].                                            *)
C4_UtilizationBounds ==
    (pc = "done" /\ ValidConfig) =>
        /\ 0 <= stats.loaderBusyTime /\ stats.loaderBusyTime <= numLoaders * clock
        /\ 0 <= stats.scaleBusyTime /\ stats.scaleBusyTime <= numScales * clock
        /\ 0 <= result.loaderUtilization[1]
        /\ result.loaderUtilization[1] <= 100 * result.loaderUtilization[2]
        /\ 0 <= result.scaleUtilization[1]
        /\ result.scaleUtilization[1] <= 100 * result.scaleUtilization[2]

-----------------------------------------------------------------------------
(* C5: for every valid configuration, whatever durations the tables hold,  *)
(* a run that was started eventually stops (a run is not started when the  *)
(* inputs were rejected).                                                  *)
C5_Termination == <>(ValidConfig => pc \in {"done", "failed"})

-----------------------------------------------------------------------------
(* no server is free while a truck waits for it *)
NoIdleServerWithQueue ==
    /\ ~(state.L < numLoaders /\ state.LQ > 0)
    /\ ~(state.W < numScales /\ state.WQ > 0)

(* C6: a completion hands the freed server to the head of its queue in the *)
(* same step: an EndLoading processed while LQ > 0 dequeues the head of    *)
(* loaderQueue, sets it LOADING and leaves its EL event in the FEL, with L *)
(* the same after the step as before; an EndWeighing processed while       *)
(* WQ > 0 does the same for the head of weigherQueue.  No state between    *)
(* two steps, before or after any step, has a free server together with a  *)
(* waiting truck.                                                          *)
C6_ImmediateHandOff ==
    [][ /\ NoIdleServerWithQueue /\ NoIdleServerWithQueue'
        /\ (AboutToDispatch /\ Head(FEL).type = "EL" /\ state.LQ > 0) =>
             /\ loaderQueue' = Tail(loaderQueue)
             /\ state'.LQ = state.LQ - 1
             /\ state'.L = state.L
             /\ trucks'[Head(loaderQueue)] = "LOADING"
             /\ \E e \in Pending(FEL') :
                   e.type = "EL" /\ e.truckId = Head(loaderQueue)
        /\ (AboutToDispatch /\ Head(FEL).type = "EW" /\ state.WQ > 0) =>
             /\ weigherQueue' = Tail(weigherQueue)
             /\ state'.WQ = state.WQ - 1
             /\ state'.W = state.W
             /\ trucks'[Head(weigherQueue)] = "WEIGHING"
             /\ \E e \in Pending(FEL') :
                   e.type = "EW" /\ e.truckId = Head(weigherQueue) ]_vars

(* an EndLoading has just been processed, every loader is busy again and   *)
(* a further truck still waits: the freed loader went to the queue's head  *)
C6_Witness ==
    /\ ValidConfig
    /\ pc = "running"
    /\ event.type = "EL"
    /\ trucks[event.truckId] \in {"IN_WQ", "WEIGHING"}
    /\ state.L = numLoaders
    /\ state.LQ >= 1

-----------------------------------------------------------------------------
(* the event the loop has dispatched last is not later than the horizon *)
DispatchedWithinHorizon ==
    (pc = "running" /\ event # NoEvent) => event.time <= maxSimTime

(* C7: no event later than the horizon is ever dispatched.  When the       *)
(* earliest pending event is later than the horizon the loop stops with    *)
(* clock = maxSimTime and the event changes no counter, queue or truck     *)
(* state; an event exactly at the horizon is still processed.              *)
C7_HorizonCutOff ==
    [][ /\ DispatchedWithinHorizon /\ DispatchedWithinHorizon'
        /\ (pc = "running" /\ FEL # <<>>) =>
             IF Head(FEL).time > maxSimTime
             THEN /\ pc' = "done"
                  /\ clock' = maxSimTime
                  /\ UNCHANGED <<state, loaderQueue, weigherQueue, trucks>>
             ELSE /\ pc' = "running"
                  /\ event' = Head(FEL)
                  /\ clock' = Head(FEL).time
                  /\ trucks'[Head(FEL).truckId] # trucks[Head(FEL).truckId] ]_vars

(* the run has ended on an event beyond the horizon, after processing an   *)
(* event exactly at the horizon                                            *)
C7_Witness ==
    /\ ValidConfig
    /\ maxSimTime > 0
    /\ pc = "done"
    /\ event.time > maxSimTime
    /\ lastEventTime = maxSimTime
    /\ clock = maxSimTime

-----------------------------------------------------------------------------
(* C8: with maxSimTime = 0 and valid counts, in both start modes, what     *)
(* run() returns is totalTime = 0 and both utilizations 0, computed        *)
(* without a division by zero, also when events at time 0 were processed.  *)
C8_ZeroHorizon ==
    (pc = "done" /\ ValidConfig /\ maxSimTime = 0) =>
        /\ result.totalTime = 0
        /\ result.loaderUtilization = <<0, 1>>
        /\ result.scaleUtilization = <<0, 1>>

(* a run with horizon 0 has ended after an arrival at time 0 was processed *)
C8_Witness ==
    /\ ValidConfig
    /\ maxSimTime = 0
    /\ pc = "done"
    /\ lastEventTime = 0
    /\ \E i \in 1..numTrucks : trucks[i] = "LOADING"
    /\ \A i \in 1..numTrucks : trucks[i] # "IDLE"

-----------------------------------------------------------------------------
SingleTruck == numTrucks = 1 /\ numLoaders = 1 /\ numScales = 1

QueuesEmpty ==
    /\ state.LQ = 0 /\ state.WQ = 0
    /\ loaderQueue = <<>> /\ weigherQueue = <<>>

(* C9: with one truck, one loader and one scale both queues stay empty in  *)
(* every state (before and after every step), and the truck's state moves *)
(* only along IDLE -> LOADING -> WEIGHING -> TRAVELING -> LOADING -> ...   *)
C9_SingleTruck ==
    [][ SingleTruck =>
          /\ QueuesEmpty /\ QueuesEmpty'
          /\ \/ trucks'[1] = trucks[1]
             \/ <<trucks[1], trucks'[1]>> \in
                   { <<"IDLE", "LOADING">>, <<"LOADING", "WEIGHING">>,
                     <<"WEIGHING", "TRAVELING">>, <<"TRAVELING", "LOADING">> } ]_vars

(* the single truck is loading for the second time, after a full cycle *)
C9_Witness ==
    /\ SingleTruck
    /\ maxSimTime >= 0
    /\ pc = "running"
    /\ clock > 0
    /\ event.type = "ALQ"
    /\ trucks[1] = "LOADING"

-----------------------------------------------------------------------------
(* the place of a pending event in the order of insertion *)
InsertionIndex(e) == CHOOSE k \in 1..Len(insertOrder) : insertOrder[k] = e

(* the FEL in ascending time, ties in the order of insertion, and the      *)
(* trucks that have not arrived yet are those of the highest ids           *)
OrderedFEL ==
    /\ Len(insertOrder) = Len(FEL)
    /\ Pending(insertOrder) = Pending(FEL)
    /\ \A i \in 1..Len(FEL) : \A j \in (i + 1)..Len(FEL) :
          /\ FEL[i].time <= FEL[j].time
          /\ FEL[i].time = FEL[j].time =>
                InsertionIndex(FEL[i]) < InsertionIndex(FEL[j])
    /\ \A i \in 1..numTrucks : \A j \in (i + 1)..numTrucks :
          trucks[i] = "IDLE" => trucks[j] = "IDLE"

(* C10: before and after every step the FEL is ordered by time ascending  *)
(* and events of equal time stand in the order of their insertion, the     *)
(* loop dispatches the head of the FEL, and the arrivals of the general    *)
(* start are processed in the order of the truck ids.                      *)
C10_StableTieBreak ==
    [][ /\ OrderedFEL /\ OrderedFEL'
        /\ AboutToDispatch => event' = Head(FEL) ]_vars

(* two pending events of equal time whose order of insertion is not the    *)
(* order of their truck ids                                                *)
C10_Witness ==
    /\ ValidConfig
    /\ pc = "running"
    /\ \E i \in 1..Len(FEL) : \E j \in (i + 1)..Len(FEL) :
          /\ FEL[i].time = FEL[j].time
          /\ FEL[i].truckId > FEL[j].truckId


-----------------------------------------------------------------------------
(* The documented reasons to reject a distribution text *)

NonBlank(text) == SelectSeq(text, LAMBDA l : ~l.blank)

(* a line that is not two comma-separated numeric fields *)
MalformedLine(line) == line.parts # 2 \/ line.time.text # "num" \/ line.prob.text # "num"

Malformed(text) == \E k \in 1..Len(NonBlank(text)) : MalformedLine(NonBlank(text)[k])

ProbabilityOutOfRange(text) ==
    \E k \in 1..Len(NonBlank(text)) :
        NonBlank(text)[k].prob.value < 0 \/ NonBlank(text)[k].prob.value > ProbScale

(* the sum of the first i probabilities of a list of entries *)
RunningSum(entries, i) ==
    LET ps[k \in 0..Len(entries)] == IF k = 0 THEN 0 ELSE ps[k - 1] + entries[k].prob
    IN  ps[i]

SumDeviates(text) ==
    LET total == RunningSum([k \in 1..Len(NonBlank(text)) |-> [prob |-> NonBlank(text)[k].prob.value]],
                            Len(NonBlank(text)))
    IN  total - ProbScale > Tolerance \/ ProbScale - total > Tolerance

InvalidText(text) == Malformed(text) \/ ProbabilityOutOfRange(text) \/ SumDeviates(text)

InvalidInput(texts) ==
    InvalidText(texts.loading) \/ InvalidText(texts.weighing) \/ InvalidText(texts.travel)

Constructed == pc \in {"constructed", "running", "done"}

(* C11: validation precedes stepping: when one of the three texts is       *)
(* malformed, holds a probability outside [0, 1] or sums to more than      *)
(* 0.001 away from 1.0, runSimulation ends in the error, no Simulation is  *)
(* constructed, and nothing is scheduled, processed or reported; and once  *)
(* the Simulation exists no validation error is raised any more.           *)
C11_ValidationPrecedesStepping ==
    [][ /\ (pc = "clicked" /\ InvalidInput(distText)) =>
              /\ pc' = "failed" /\ error' # "none"
              /\ UNCHANGED <<cumProbs, clock, FEL, state, loaderQueue, weigherQueue,
                             trucks, stats, lastEventTime, event, result>>
        /\ (Constructed => error' = "none" /\ pc' # "failed") ]_vars

-----------------------------------------------------------------------------
(* C12: a configuration whose truck count, loader capacity or scale        *)
(* capacity is not positive, or whose horizon is negative, never reaches   *)
(* the Simulation constructor or run().                                    *)
C12_NumericValidation == Constructed => ValidConfig

-----------------------------------------------------------------------------
(* the three texts parse, so that the tables are built from them *)
AllParsed(texts) ==
    \A ty \in {"loading", "weighing", "travel"} : parseDistribution(texts[ty]).error = "none"

(* an empty list of entries, or a sum more than 0.001 away from 1.0 *)
EmptyOrDeviates(dist) ==
    \/ Len(dist) = 0
    \/ RunningSum(dist, Len(dist)) > ProbScale + Tolerance
    \/ RunningSum(dist, Len(dist)) < ProbScale - Tolerance

(* C13: building the cumulative tables fails exactly when one of the lists *)
(* is empty or sums to more than 0.001 away from 1.0; otherwise each table *)
(* has the length of its list, keeps the times, and its i-th entry holds   *)
(* the running sum of the probabilities 1..i, except the last entry,       *)
(* which is exactly 1.0.                                                   *)
C13_CumulativeTable ==
    [][ (pc = "clicked" /\ AllParsed(distText)) =>
          /\ (pc' = "failed") <=>
                (\E ty \in {"loading", "weighing", "travel"} :
                    EmptyOrDeviates(parseDistribution(distText[ty]).dist))
          /\ (pc' = "failed") => (error' = "must sum to 1.0" /\ cumProbs' = NoTables)
          /\ (pc' # "failed") =>
                \A ty \in {"loading", "weighing", "travel"} :
                    LET dist == parseDistribution(distText[ty]).dist
                    IN  /\ Len(cumProbs'[ty]) = Len(dist)
                        /\ \A i \in 1..Len(dist) :
                              /\ cumProbs'[ty][i].time = dist[i].time
                              /\ cumProbs'[ty][i].cum_prob =
                                    IF i = Len(dist) THEN ProbScale ELSE RunningSum(dist, i) ]_vars

(* tables were built, one of them from a list summing to 1.001 *)
C13_Witness ==
    /\ pc = "constructed"
    /\ Len(cumProbs.weighing) = 2
    /\ cumProbs.weighing[1].cum_prob = 300
    /\ cumProbs.weighing[2].cum_prob = ProbScale

-----------------------------------------------------------------------------
(* the value of the first entry whose cumulative probability is >= r, the  *)
(* last entry's value if there is none                                     *)
FirstQualifying(table, r) ==
    LET ok == {i \in 1..Len(table) : table[i].cum_prob >= r}
    IN  IF ok = {} THEN table[Len(table)].time
        ELSE table[CHOOSE i \in ok : \A j \in ok : i <= j].time

TableValues(table) == {table[i].time : i \in 1..Len(table)}

(* the table an event's delay is sampled from *)
SampledFrom(type) ==
    IF type = "EL" THEN "loading" ELSE IF type = "EW" THEN "weighing" ELSE "travel"

(* C14: for each of the three cumulative tables and every draw r, the      *)
(* sampler returns the value of the first entry whose cumulative           *)
(* probability is >= r (the last entry's value if none qualifies), which   *)
(* is one of the values of the table; and every event a step schedules     *)
(* with a sampled delay lies one of its table's values after the clock.    *)
C14_SamplerResult ==
    [][ /\ (pc = "clicked" /\ pc' = "constructed") =>
              \A ty \in {"loading", "weighing", "travel"} : \A r \in RandDraws :
                 /\ getRandomTime(cumProbs'[ty], r) = FirstQualifying(cumProbs'[ty], r)
                 /\ getRandomTime(cumProbs'[ty], r) \in TableValues(cumProbs'[ty])
        /\ Constructed =>
              /\ cumProbs' = cumProbs
              /\ \A e \in Pending(FEL') \ Pending(FEL) :
                    (e.type = "ALQ" => pc = "running") =>
                        e.time - clock' \in TableValues(cumProbs[SampledFrom(e.type)]) ]_vars

(* an arrival was processed and its truck loads for the second value of a  *)
(* two-entry loading table                                                 *)
C14_Witness ==
    /\ pc = "running"
    /\ event.type = "ALQ"
    /\ Len(cumProbs.loading) = 2
    /\ \E e \in Pending(FEL) :
          /\ e.type = "EL" /\ e.truckId = event.truckId
          /\ e.time = clock + cumProbs.loading[2].time

-----------------------------------------------------------------------------
InQueue(queue, id) == \E k \in 1..Len(queue) : queue[k] = id

NoDuplicates(queue) == \A j, k \in 1..Len(queue) : queue[j] = queue[k] => j = k

(* in service at a loader: the truck loads, its EndLoading pending *)
AtLoader(id) ==
    trucks[id] = "LOADING" \/ \E e \in Pending(FEL) : e.type = "EL" /\ e.truckId = id

AtScale(id) ==
    trucks[id] = "WEIGHING" \/ \E e \in Pending(FEL) : e.type = "EW" /\ e.truckId = id

(* the number of places a truck is in *)
Places(id) ==
    (IF InQueue(loaderQueue, id) THEN 1 ELSE 0) + (IF InQueue(weigherQueue, id) THEN 1 ELSE 0)
    + (IF AtLoader(id) THEN 1 ELSE 0) + (IF AtScale(id) THEN 1 ELSE 0)

(* C15: in every state between steps LQ is the length of loaderQueue and   *)
(* WQ the length of weigherQueue, no truck id occurs twice in a queue, and *)
(* every truck is in at most one of: loaderQueue, weigherQueue, in service *)
(* at a loader, in service at a scale.                                     *)
C15_ResourceStateConsistency ==
    /\ state.LQ = Len(loaderQueue)
    /\ state.WQ = Len(weigherQueue)
    /\ NoDuplicates(loaderQueue) /\ NoDuplicates(weigherQueue)
    /\ \A id \in 1..numTrucks : Places(id) <= 1

(* both queues hold a truck while a third truck is in service *)
C15_Witness ==
    /\ pc = "running"
    /\ Len(loaderQueue) >= 1 /\ Len(weigherQueue) >= 1
    /\ \E id \in 1..numTrucks : AtLoader(id) \/ AtScale(id)

-----------------------------------------------------------------------------
(* the trucks whose state is phase *)
InPhase(phase) == {id \in 1..numTrucks : trucks[id] = phase}

Contents(queue) == {queue[k] : k \in 1..Len(queue)}

(* C16: after init (either mode) and after every processed event, the      *)
(* number of trucks LOADING is L, the number WEIGHING is W, the trucks      *)
(* IN_LQ are exactly the contents of loaderQueue and the trucks IN_WQ       *)
(* exactly the contents of weigherQueue.                                    *)
C16_PhaseCounterConsistency ==
    Started =>
        /\ Cardinality(InPhase("LOADING")) = state.L
        /\ Cardinality(InPhase("WEIGHING")) = state.W
        /\ InPhase("IN_LQ") = Contents(loaderQueue)
        /\ InPhase("IN_WQ") = Contents(weigherQueue)

(* an event was processed, after which trucks load, weigh and wait in both *)
(* queues                                                                  *)
C16_Witness ==
    /\ pc = "running"
    /\ event.type = "EL"
    /\ InPhase("LOADING") # {} /\ InPhase("WEIGHING") # {}
    /\ InPhase("IN_LQ") # {} /\ InPhase("IN_WQ") # {}

-----------------------------------------------------------------------------
(* C17: every step of run() of a valid configuration, the final update at  *)
(* the exit of the loop included, adds to each accumulator the time        *)
(* elapsed since the last update once for every truck that was in service  *)
(* at that resource before the step (which is the count L, W before the    *)
(* handler ran), and a processed event moves the last update time to its   *)
(* own time; so each accumulator is the sum over the trucks of the         *)
(* simulated time spent in service up to the final clock.                  *)
C17_TimeWeightedIntegral ==
    [][ (pc = "running" /\ ValidConfig) =>
          /\ stats'.loaderBusyTime = stats.loaderBusyTime
                + Cardinality(InPhase("LOADING")) * (clock' - lastEventTime)
          /\ stats'.scaleBusyTime = stats.scaleBusyTime
                + Cardinality(InPhase("WEIGHING")) * (clock' - lastEventTime)
          /\ Cardinality(InPhase("LOADING")) = state.L
          /\ Cardinality(InPhase("WEIGHING")) = state.W
          /\ (pc' = "running" => lastEventTime' = clock' /\ clock' = event'.time)
          /\ (pc' = "done" => lastEventTime' = lastEventTime) ]_vars

(* run() has returned at the horizon after an event that changed the       *)
(* counts, with unequal time accumulated for the loaders and the scale     *)
C17_Witness ==
    /\ pc = "done" /\ ValidConfig
    /\ clock = maxSimTime /\ lastEventTime > 0 /\ lastEventTime < clock
    /\ stats.loaderBusyTime > stats.scaleBusyTime
    /\ stats.scaleBusyTime > 0

-----------------------------------------------------------------------------
(* the pending events of truck id *)
EventsOf(fel, id) == {k \in 1..Len(fel) : fel[k].truckId = id}

(* C18: after every EndWeighing step, whatever the weigh queue holds, W    *)
(* was decremented for the truck (and incremented again only by a          *)
(* hand-off to the head of the queue), the truck is TRAVELING, and the FEL *)
(* holds exactly one event for it, an ArriveAtLoaderQueue at the clock     *)
(* plus a sampled travel time; the run goes on and no truck has left the   *)
(* six phases.                                                             *)
C18_TravelFollowsWeighing ==
    [][ Dispatching("EW") =>
          LET id == Head(FEL).truckId
          IN  /\ state'.W = state.W - 1 + (IF state.WQ > 0 THEN 1 ELSE 0)
              /\ trucks'[id] = "TRAVELING"
              /\ Cardinality(EventsOf(FEL', id)) = 1
              /\ \A k \in EventsOf(FEL', id) :
                    /\ FEL'[k].type = "ALQ"
                    /\ FEL'[k].time - clock' \in TableValues(cumProbs.travel)
              /\ pc' = "running"
              /\ \A t \in 1..numTrucks : trucks'[t] \in InSystem \cup {"IDLE"} ]_vars

(* an EndWeighing was processed while a truck waited for the scale: the    *)
(* truck travels, the scale is busy with the next one                      *)
C18_Witness ==
    /\ pc = "running"
    /\ event.type = "EW"
    /\ trucks[event.truckId] = "TRAVELING"
    /\ state.W = 1 /\ numScales = 1
    /\ \E k \in EventsOf(FEL, event.truckId) : FEL[k].type = "ALQ" /\ FEL[k].time > clock

-----------------------------------------------------------------------------
(* the events of the FEL as <<type, truckId>> pairs *)
Kinds(fel) == {<<fel[k].type, fel[k].truckId>> : k \in 1..Len(fel)}

(* C19: for (numTrucks, numLoaders, numScales) = (6, 2, 1) init leaves     *)
(* trucks 1 and 2 LOADING (L = 2), trucks 3, 4, 5 in loaderQueue in that   *)
(* order (LQ = 3), truck 6 WEIGHING (W = 1, weigherQueue empty), and the   *)
(* FEL holding exactly three events: EL for trucks 1 and 2 and EW for      *)
(* truck 6, each at time 0 plus a sampled service time; for any other      *)
(* triple init schedules one ALQ per truck at time 0 and leaves all        *)
(* counters 0.                                                             *)
C19_SpecialCaseStart ==
    [][ pc = "constructed" =>
          /\ pc' = "running" /\ clock' = 0
          /\ IF numTrucks = 6 /\ numLoaders = 2 /\ numScales = 1
             THEN /\ trucks' = <<"LOADING", "LOADING", "IN_LQ", "IN_LQ", "IN_LQ", "WEIGHING">>
                  /\ state' = [LQ |-> 3, L |-> 2, WQ |-> 0, W |-> 1]
                  /\ loaderQueue' = <<3, 4, 5>>
                  /\ weigherQueue' = <<>>
                  /\ Len(FEL') = 3
                  /\ Kinds(FEL') = {<<"EL", 1>>, <<"EL", 2>>, <<"EW", 6>>}
                  /\ \A k \in 1..3 :
                        FEL'[k].time \in TableValues(cumProbs[SampledFrom(FEL'[k].type)])
             ELSE /\ Len(FEL') = numTrucks
                  /\ Kinds(FEL') = {<<"ALQ", i>> : i \in 1..numTrucks}
                  /\ \A k \in 1..Len(FEL') : FEL'[k].time = 0
                  /\ state' = [LQ |-> 0, L |-> 0, WQ |-> 0, W |-> 0]
                  /\ loaderQueue' = <<>> /\ weigherQueue' = <<>>
                  /\ \A i \in 1..numTrucks : trucks'[i] = "IDLE" ]_vars

(* init has just run in the special case *)
C19_Witness ==
    /\ pc = "running"
    /\ event = NoEvent
    /\ isProblemSpecific
    /\ loaderQueue = <<3, 4, 5>>
    /\ Len(FEL) = 3

-----------------------------------------------------------------------------
(* one step forward along the cycle, a queue phase passed through when the *)
(* resource is free                                                        *)
Forward(from, to) ==
    \/ to = from
    \/ from = "IDLE" /\ to \in {"IN_LQ", "LOADING"}
    \/ from = "IN_LQ" /\ to = "LOADING"
    \/ from = "LOADING" /\ to \in {"IN_WQ", "WEIGHING"}
    \/ from = "IN_WQ" /\ to = "WEIGHING"
    \/ from = "WEIGHING" /\ to = "TRAVELING"
    \/ from = "TRAVELING" /\ to \in {"IN_LQ", "LOADING"}

(* C20 as stated: across any two consecutive states each truck's phase     *)
(* stays the same or moves forward along the cycle Idle -> InLoaderQueue   *)
(* -> Loading -> InScaleQueue -> Weighing -> Traveling -> InLoaderQueue,   *)
(* never backwards, never past a service phase, never back to Idle.        *)
C20_PhaseCycleEveryStep ==
    [][ \A id \in 1..numTrucks : Forward(trucks[id], trucks'[id]) ]_vars

(* C20: across any two consecutive states after init each truck's phase    *)
(* stays the same or moves forward along the cycle, and no truck returns   *)
(* to Idle; init itself either leaves a truck Idle or places it from Idle  *)
(* straight at Loading, InLoaderQueue or (the sixth truck of the special   *)
(* start, without having loaded) Weighing.                                 *)
C20_PhaseCycle ==
    [][ \A id \in 1..numTrucks :
          IF pc = "constructed"
          THEN trucks[id] = "IDLE" /\ trucks'[id] \in {"IDLE", "LOADING", "IN_LQ", "WEIGHING"}
          ELSE Forward(trucks[id], trucks'[id]) ]_vars

(* in the special start, a truck has come back from travelling to the      *)
(* loaders                                                                 *)
C20_Witness ==
    /\ pc = "running"
    /\ isProblemSpecific
    /\ event.type = "ALQ"
    /\ trucks[event.truckId] \in {"IN_LQ", "LOADING"}

-----------------------------------------------------------------------------
(* a step of a wait-list that serves in order of joining: some trucks      *)
(* leave from the head, the others keep their order, and the trucks that   *)
(* join come behind all of them                                            *)
FifoStep(queue, queueNext) ==
    \E k \in 0..Len(queue) :
        /\ Len(queueNext) >= Len(queue) - k
        /\ \A j \in 1..(Len(queue) - k) : queueNext[j] = queue[k + j]
        /\ \A j \in (Len(queue) - k + 1)..Len(queueNext) : ~InQueue(queue, queueNext[j])

(* the trucks that leave a wait-list in a step are the first of it *)
LeaveFromHead(queue, queueNext) ==
    \A j \in 1..Len(queue) :
        ~InQueue(queueNext, queue[j]) => \A i \in 1..j : ~InQueue(queueNext, queue[i])

(* C21: trucks leave loaderQueue, to start loading, in exactly the order   *)
(* in which they joined it, and likewise weigherQueue: in every step the   *)
(* trucks that leave a queue are its first ones and start service, those   *)
(* that stay keep their order, and those that join come behind them, so a  *)
(* truck that joined later never starts service before an earlier one.     *)
C21_FifoService ==
    [][ /\ FifoStep(loaderQueue, loaderQueue')
        /\ FifoStep(weigherQueue, weigherQueue')
        /\ LeaveFromHead(loaderQueue, loaderQueue')
        /\ LeaveFromHead(weigherQueue, weigherQueue')
        /\ \A id \in 1..numTrucks :
              /\ (InQueue(loaderQueue, id) /\ ~InQueue(loaderQueue', id)) =>
                    (id = Head(loaderQueue) /\ trucks'[id] = "LOADING")
              /\ (InQueue(weigherQueue, id) /\ ~InQueue(weigherQueue', id)) =>
                    (id = Head(weigherQueue) /\ trucks'[id] = "WEIGHING")
              /\ (trucks[id] # "LOADING" /\ trucks'[id] = "LOADING" /\ loaderQueue # <<>>) =>
                    id = Head(loaderQueue)
              /\ (trucks[id] # "WEIGHING" /\ trucks'[id] = "WEIGHING" /\ weigherQueue # <<>>) =>
                    id = Head(weigherQueue) ]_vars

(* truck 6 came back from travelling and joined the loader queue behind    *)
(* truck 5; the next free loader went to truck 5 and truck 6 still waits   *)
C21_Witness ==
    /\ pc = "running"
    /\ isProblemSpecific
    /\ event.type = "EL"
    /\ trucks[5] = "LOADING"
    /\ loaderQueue = <<6>>

-----------------------------------------------------------------------------
(* C22: in every state after init and after every processed event, LQ > 0  *)
(* implies L = numLoaders and WQ > 0 implies W = numScales: no truck waits *)
(* in a queue while a server of that resource is idle.                     *)
C22_WorkConservation ==
    Started =>
        /\ (state.LQ > 0 => state.L = numLoaders)
        /\ (state.WQ > 0 => state.W = numScales)
        /\ (loaderQueue # <<>> => Cardinality(InPhase("LOADING")) = numLoaders)
        /\ (weigherQueue # <<>> => Cardinality(InPhase("WEIGHING")) = numScales)

(* an event was processed and trucks wait in both queues, every loader and *)
(* every scale busy                                                        *)
C22_Witness ==
    /\ pc = "running"
    /\ event.type \in {"ALQ", "EL", "EW"}
    /\ ValidConfig
    /\ state.LQ > 0 /\ state.WQ > 0
    /\ state.L = numLoaders /\ state.W = numScales

-----------------------------------------------------------------------------
(* the event a truck in a phase waits for, "none" for a truck in a queue *)
AwaitedEvent(phase) ==
    IF phase \in {"IDLE", "TRAVELING"} THEN "ALQ"
    ELSE IF phase = "LOADING" THEN "EL"
    ELSE IF phase = "WEIGHING" THEN "EW"
    ELSE "none"

(* C23: in every state between the steps of the loop, the FEL holds        *)
(* exactly one event for each truck that is IDLE (general start, not yet   *)
(* arrived), LOADING, WEIGHING or TRAVELING, of type ALQ, EL, EW, ALQ      *)
(* respectively, and no event for a truck that waits in loaderQueue or     *)
(* weigherQueue; so the FEL never holds more than numTrucks events.        *)
C23_OnePendingEvent ==
    pc = "running" =>
        /\ \A id \in 1..numTrucks :
              IF AwaitedEvent(trucks[id]) = "none"
              THEN EventsOf(FEL, id) = {}
              ELSE /\ Cardinality(EventsOf(FEL, id)) = 1
                   /\ \A k \in EventsOf(FEL, id) : FEL[k].type = AwaitedEvent(trucks[id])
        /\ \A k \in 1..Len(FEL) : FEL[k].truckId \in 1..numTrucks
        /\ Len(FEL) <= numTrucks

(* trucks load, weigh, travel and wait at the same time, the FEL shorter   *)
(* than the number of trucks                                               *)
C23_Witness ==
    /\ pc = "running"
    /\ event.type = "EW"
    /\ InPhase("LOADING") # {} /\ InPhase("WEIGHING") # {} /\ InPhase("TRAVELING") # {}
    /\ InPhase("IN_LQ") # {}
    /\ Len(FEL) < numTrucks

-----------------------------------------------------------------------------
(* at least one truck, one loader and one scale *)
PositiveCounts == numTrucks >= 1 /\ numLoaders >= 1 /\ numScales >= 1

(* C24: with at least one truck, one loader and one scale the FEL is never *)
(* empty when the loop condition is tested, so the loop exits only through *)
(* the horizon check (the event shifted last lies beyond the horizon), and *)
(* whenever run() has returned the reported totalTime, like the clock, is  *)
(* the configured horizon, not the time of the last processed event.       *)
C24_EndsAtHorizon ==
    PositiveCounts =>
        /\ (pc = "running" => FEL # <<>>)
        /\ (pc = "done" =>
              /\ event.type \in {"ALQ", "EL", "EW"}
              /\ event.time > maxSimTime
              /\ clock = maxSimTime
              /\ result.totalTime = maxSimTime)

(* run() has returned at a horizon later than the last processed event *)
C24_Witness ==
    /\ pc = "done"
    /\ PositiveCounts
    /\ lastEventTime > 0 /\ lastEventTime < maxSimTime
    /\ result.totalTime = maxSimTime

-----------------------------------------------------------------------------
(* both Simulations exist, on the hard-coded tables *)
SideBySide == Constructed /\ cumProbs = CUM_PROBS

(* the fields of the Simulation of src/simulation.js that the one of       *)
(* part_000 has too                                                        *)
Fields0 ==
    [pc |-> pc, clock |-> clock, FEL |-> FEL, state |-> state,
     loaderQueue |-> loaderQueue, weigherQueue |-> weigherQueue, trucks |-> trucks,
     stats |-> stats, lastEventTime |-> lastEventTime, result |-> result]

(* C25: for the same counts and a horizon >= 0, the hard-coded tables of   *)
(* part_000 given to simulation.js and the same draws, the two Simulations *)
(* go through the same clock, FEL, counters, queues and truck states step  *)
(* by step, accumulate the same busy times, and return the same totalTime  *)
(* and utilizations: the guard timeDelta > 0 on the final update of        *)
(* simulation.js changes nothing.                                          *)
C25_EnginesEquivalent ==
    (SideBySide /\ maxSimTime >= 0) => part0 = Fields0

(* both runs have returned, the last event processed exactly at the        *)
(* horizon, so that the final update of simulation.js was skipped by the   *)
(* guard and the one of part_000 made                                      *)
C25_Witness ==
    /\ SideBySide /\ pc = "done" /\ part0.pc = "done"
    /\ maxSimTime = LongHorizon
    /\ lastEventTime = maxSimTime
    /\ stats.loaderBusyTime > 0
    /\ part0.result = result

====
